---- MODULE Spec2Model ----
(***************************************************************************)
(* The Tag object of crates/aide/src/openapi/tag.rs: its builder methods,  *)
(* its derived serde serialization and its derived serde deserialization.  *)
(*                                                                         *)
(* A Tag is a record [name, description, external_docs, extensions].       *)
(* Option<T> is a sequence of length 0 (None) or 1 (Some).  The IndexMap   *)
(* is the sequence of its <<key, value>> entries in insertion order, keys  *)
(* distinct.  A wire value (serde_json::Value) is <<type, payload>>.  The  *)
(* wire form of an object is the sequence of <<key, value>> entries the    *)
(* serializer emits, or the sequence of entries a map access yields.       *)
(***************************************************************************)
EXTENDS Integers, Sequences, FiniteSets, TLC

VARIABLES tag, op, arg, wire, result

vars == <<tag, op, arg, wire, result>>

----------------------------------------------------------------------------
(* Bounds and input alphabets *)

MaxPairs == 2
MaxInput == 3

None == <<>>
Some(x) == <<x>>

Str(s) == <<"string", s>>
Num(n) == <<"number", n>>
Obj(o) == <<"object", o>>
Null == <<"null", "">>

Names == {"", "pet"}
Descriptions == {"d1", "d2"}
Docs == {"e1", "e2"}

\* the (key, value) items offered to Tag::extensions
BuilderItems ==
    { <<"a", Num("1")>>, <<"a", Num("2")>>, <<"b", Num("3")>>, <<"name", Str("pet")>> }

\* the top-level keys and values offered to the deserializer
InputKeys == {"name", "description", "externalDocs", "external_docs", "x-id"}
InputValues == {Str("pet"), Str("b"), Obj("e1"), Null}

SeqsUpTo(S, n) == UNION { [1..k -> S] : k \in 0..n }

\* the arguments offered to Tag::extensions
BuilderArgs == SeqsUpTo(BuilderItems, MaxPairs)

\* the documents offered to the deserializer
Inputs == SeqsUpTo(InputKeys \X InputValues, MaxInput)

Key(e) == e[1]
Val(e) == e[2]

Keys(m) == { Key(m[i]) : i \in 1..Len(m) }
KeySeq(m) == [i \in 1..Len(m) |-> Key(m[i])]
HasKey(m, k) == \E i \in 1..Len(m) : Key(m[i]) = k
IndexOf(m, k) == CHOOSE i \in 1..Len(m) : Key(m[i]) = k
Get(m, k) == Val(m[IndexOf(m, k)])
LastIndexOf(m, k) ==
    CHOOSE i \in 1..Len(m) : Key(m[i]) = k /\ \A j \in (i+1)..Len(m) : Key(m[j]) # k
LastVal(m, k) == Val(m[LastIndexOf(m, k)])
Occurrences(m, k) == Cardinality({ i \in 1..Len(m) : Key(m[i]) = k })

----------------------------------------------------------------------------
(* IndexMap *)

\* faulty variant: IndexMap::insert with the first write kept
IndexMapInsertKeepFirst(m, k, v) ==
    IF HasKey(m, k) THEN m ELSE Append(m, <<k, v>>)

\* IndexMap::insert: an existing key keeps its position and takes the new
\* value, a new key is appended
IndexMapInsert(m, k, v) ==
    IF HasKey(m, k)
    THEN [i \in 1..Len(m) |-> IF Key(m[i]) = k THEN <<k, v>> ELSE m[i]]
    ELSE Append(m, <<k, v>>)

RECURSIVE IndexMapExtend(_, _)
\* IndexMap::extend: insert every item, in iteration order
IndexMapExtend(m, items) ==
    IF items = <<>> THEN m
    ELSE IndexMapExtend(IndexMapInsert(m, Key(Head(items)), Val(Head(items))),
                        Tail(items))

----------------------------------------------------------------------------
(* Construction and builder methods *)

\* #[derive(Default)]
DefaultTag ==
    [name |-> "", description |-> None, external_docs |-> None, extensions |-> <<>>]

\* Tag::new
TagNew(n) == [DefaultTag EXCEPT !.name = n]

\* faulty variant: Tag::description written with ..Self::default() instead of ..self
TagDescriptionFromDefault(self, d) == [DefaultTag EXCEPT !.description = Some(d)]

\* Tag::description
TagDescription(self, d) == [self EXCEPT !.description = Some(d)]

\* Tag::external_docs
TagExternalDocs(self, e) == [self EXCEPT !.external_docs = Some(e)]

\* Tag::extensions
TagExtensions(self, items) ==
    [self EXCEPT !.extensions = IndexMapExtend(self.extensions, items)]

----------------------------------------------------------------------------
(* Serialization: #[derive(Serialize)] *)

WireKeyName == "name"
WireKeyDescription == "description"

\* faulty variant: external_docs emitted and read under the field's own name
WireKeyExternalDocsUnrenamed == "external_docs"

\* #[serde(rename = "externalDocs")]
WireKeyExternalDocs == "externalDocs"

TypedKeys == {WireKeyName, WireKeyDescription, WireKeyExternalDocs}

\* the wire form of an ExternalDocumentation
ExternalDocsToWire(e) == Obj(e)

\* the ExternalDocumentation read from a wire value
ExternalDocsFromWire(v) == v[2]

\* name: String, emitted unconditionally
SerName(self) == << <<WireKeyName, Str(self.name)>> >>

\* faulty variant: description emitted as null when absent
SerDescriptionNull(self) ==
    IF self.description = None THEN << <<WireKeyDescription, Null>> >>
    ELSE << <<WireKeyDescription, Str(self.description[1])>> >>

\* description: skip_serializing_if = "Option::is_none"
SerDescription(self) ==
    IF self.description = None THEN <<>>
    ELSE << <<WireKeyDescription, Str(self.description[1])>> >>

\* external_docs: skip_serializing_if = "Option::is_none"
SerExternalDocs(self) ==
    IF self.external_docs = None THEN <<>>
    ELSE << <<WireKeyExternalDocs, ExternalDocsToWire(self.external_docs[1])>> >>

\* extensions: flatten, every entry of the map in iteration order
SerExtensions(self) == self.extensions

\* faulty variant: the flattened entries emitted before the typed fields
SerializeExtensionsFirst(self) ==
    SerExtensions(self) \o SerName(self) \o SerDescription(self) \o SerExternalDocs(self)

\* faulty variant: the description field left out of the output
SerializeWithoutDescription(self) ==
    SerName(self) \o SerExternalDocs(self) \o SerExtensions(self)

\* the fields in declaration order
Serialize(self) ==
    SerName(self) \o SerDescription(self) \o SerExternalDocs(self) \o SerExtensions(self)

----------------------------------------------------------------------------
(* Deserialization: #[derive(Deserialize)] with a flattened field *)

Ok(t) == [ok |-> TRUE, tag |-> Some(t), err |-> None]
Err(kind, field) == [ok |-> FALSE, tag |-> None, err |-> <<kind, field>>]
NoResult == [ok |-> FALSE, tag |-> None, err |-> None]

\* the visitor's locals before the first entry
DeStart == [name |-> None, description |-> None, external_docs |-> None,
            collect |-> <<>>, err |-> None]

DeFail(acc, kind, field) == [acc EXCEPT !.err = <<kind, field>>]

\* String
DeString(v) == IF v[1] = "string" THEN Some(v[2]) ELSE None

\* Option<String>: null is None
DeOptionString(v) ==
    IF v[1] = "null" THEN Some(None)
    ELSE IF v[1] = "string" THEN Some(Some(v[2])) ELSE None

\* Option<ExternalDocumentation>: null is None
DeOptionExternalDocs(v) ==
    IF v[1] = "null" THEN Some(None)
    ELSE IF v[1] = "object" THEN Some(Some(ExternalDocsFromWire(v))) ELSE None

\* faulty variant: one entry of the map, a repeated typed key overwriting the field
DeEntryLastWins(acc, k, v) ==
    IF k = WireKeyName THEN
        IF DeString(v) = None THEN DeFail(acc, "invalid_type", k)
        ELSE [acc EXCEPT !.name = DeString(v)]
    ELSE IF k = WireKeyDescription THEN
        IF DeOptionString(v) = None THEN DeFail(acc, "invalid_type", k)
        ELSE [acc EXCEPT !.description = DeOptionString(v)]
    ELSE IF k = WireKeyExternalDocs THEN
        IF DeOptionExternalDocs(v) = None THEN DeFail(acc, "invalid_type", k)
        ELSE [acc EXCEPT !.external_docs = DeOptionExternalDocs(v)]
    ELSE [acc EXCEPT !.collect = Append(@, <<k, v>>)]

\* faulty variant: one entry of the map, an unrecognised key ignored
DeEntryIgnoreUnknown(acc, k, v) ==
    IF k \in TypedKeys THEN DeEntryLastWins(acc, k, v) ELSE acc

\* one entry of the map: a typed key is rejected when its field is already
\* set, else its value is parsed into the field; any other key is collected
DeEntry(acc, k, v) ==
    IF k = WireKeyName THEN
        IF acc.name # None THEN DeFail(acc, "duplicate_field", k)
        ELSE IF DeString(v) = None THEN DeFail(acc, "invalid_type", k)
        ELSE [acc EXCEPT !.name = DeString(v)]
    ELSE IF k = WireKeyDescription THEN
        IF acc.description # None THEN DeFail(acc, "duplicate_field", k)
        ELSE IF DeOptionString(v) = None THEN DeFail(acc, "invalid_type", k)
        ELSE [acc EXCEPT !.description = DeOptionString(v)]
    ELSE IF k = WireKeyExternalDocs THEN
        IF acc.external_docs # None THEN DeFail(acc, "duplicate_field", k)
        ELSE IF DeOptionExternalDocs(v) = None THEN DeFail(acc, "invalid_type", k)
        ELSE [acc EXCEPT !.external_docs = DeOptionExternalDocs(v)]
    ELSE [acc EXCEPT !.collect = Append(@, <<k, v>>)]

RECURSIVE DeEntries(_, _)
\* the visitor's loop over the entries, ended by the first error
DeEntries(acc, input) ==
    IF acc.err # None \/ input = <<>> THEN acc
    ELSE DeEntries(DeEntry(acc, Key(Head(input)), Val(Head(input))), Tail(input))

\* crate::util::deserialize_extensions over the collected entries
DeserializeExtensions(collect) == IndexMapExtend(<<>>, collect)

\* faulty variant: a missing name filled with the default
DeFinishDefaultName(acc) ==
    IF acc.err # None THEN Err(acc.err[1], acc.err[2])
    ELSE Ok([name |-> IF acc.name = None THEN "" ELSE acc.name[1],
             description |-> IF acc.description = None THEN None ELSE acc.description[1],
             external_docs |-> IF acc.external_docs = None THEN None
                               ELSE acc.external_docs[1],
             extensions |-> DeserializeExtensions(acc.collect)])

\* after the loop: name is required, a missing Option field is None, the
\* flattened field is read from the collected entries
DeFinish(acc) ==
    IF acc.err # None THEN Err(acc.err[1], acc.err[2])
    ELSE IF acc.name = None THEN Err("missing_field", WireKeyName)
    ELSE Ok([name |-> acc.name[1],
             description |-> IF acc.description = None THEN None ELSE acc.description[1],
             external_docs |-> IF acc.external_docs = None THEN None
                               ELSE acc.external_docs[1],
             extensions |-> DeserializeExtensions(acc.collect)])

Deserialize(input) == DeFinish(DeEntries(DeStart, input))

----------------------------------------------------------------------------
(* The state machine: one Tag value, the last operation applied, the       *)
(* argument it took, and what serialization and deserialization produced.  *)

Init ==
    /\ tag = DefaultTag
    /\ op = "default"
    /\ arg = <<>>
    /\ wire = <<>>
    /\ result = NoResult

\* a Tag under construction: made by Default or Tag::new, builder methods
\* applied so far, not yet handed to the serializer
Building == op \in {"default", "new", "description", "external_docs", "extensions"}

\* a Tag value is at hand: none is after a failed parse
HasTag == Building \/ (op = "deserialize" /\ result.ok)

New ==
    /\ op = "default"
    /\ \E n \in Names :
          /\ tag' = TagNew(n)
          /\ arg' = <<n>>
    /\ op' = "new"
    /\ wire' = <<>>
    /\ result' = NoResult

Description ==
    /\ Building
    /\ \E d \in Descriptions :
          /\ tag' = TagDescription(tag, d)
          /\ arg' = <<d>>
    /\ op' = "description"
    /\ wire' = <<>>
    /\ result' = NoResult

ExternalDocs ==
    /\ Building
    /\ \E e \in Docs :
          /\ tag' = TagExternalDocs(tag, e)
          /\ arg' = <<e>>
    /\ op' = "external_docs"
    /\ wire' = <<>>
    /\ result' = NoResult

Extensions ==
    /\ Building
    /\ \E items \in BuilderArgs :
          /\ tag' = TagExtensions(tag, items)
          /\ arg' = items
    /\ op' = "extensions"
    /\ wire' = <<>>
    /\ result' = NoResult

DoSerialize ==
    /\ HasTag
    /\ wire' = Serialize(tag)
    /\ op' = "serialize"
    /\ arg' = <<>>
    /\ result' = NoResult
    /\ UNCHANGED tag

\* a Tag parsed from an input document
DoDeserialize ==
    /\ op = "default"
    /\ \E input \in Inputs :
          /\ result' = Deserialize(input)
          /\ arg' = input
    /\ tag' = IF result'.ok THEN result'.tag[1] ELSE tag
    /\ op' = "deserialize"
    /\ wire' = <<>>

\* the serialized Tag parsed back
DoRoundTrip ==
    /\ op = "serialize"
    /\ result' = Deserialize(wire)
    /\ op' = "roundtrip"
    /\ arg' = wire
    /\ UNCHANGED <<tag, wire>>

Next ==
    \/ New
    \/ Description
    \/ ExternalDocs
    \/ Extensions
    \/ DoSerialize
    \/ DoDeserialize
    \/ DoRoundTrip

Spec == Init /\ [][Next]_vars

----------------------------------------------------------------------------
(* Vocabulary of the properties *)

NameKey == "name"
DescriptionKey == "description"
ExternalDocsKey == "externalDocs"
TypedWireKeys == {NameKey, DescriptionKey, ExternalDocsKey}

\* the entries of m whose key is not a typed wire key, in order
Unmatched(m) == SelectSeq(m, LAMBDA e : Key(e) \notin TypedWireKeys)

\* the entries the typed fields contributed to a serialized Tag
TypedPart(w, t) == SubSeq(w, 1, Len(w) - Len(t.extensions))

\* the entries the extensions map contributed to a serialized Tag
ExtensionPart(w, t) == SubSeq(w, Len(w) - Len(t.extensions) + 1, Len(w))

NonColliding(t) == Keys(t.extensions) \cap TypedWireKeys = {}

DistinctKeys(m) == \A i, j \in 1..Len(m) : Key(m[i]) = Key(m[j]) => i = j

FirstIndexOf(m, k) ==
    CHOOSE i \in 1..Len(m) : Key(m[i]) = k /\ \A j \in 1..(i-1) : Key(m[j]) # k

\* every typed key of the input carries a value of its field's type
WellTyped(m) ==
    \A i \in 1..Len(m) :
        /\ Key(m[i]) = NameKey => m[i][2][1] = "string"
        /\ Key(m[i]) = DescriptionKey => m[i][2][1] \in {"string", "null"}
        /\ Key(m[i]) = ExternalDocsKey => m[i][2][1] \in {"object", "null"}

TypedKeyRepeated(m) == \E k \in TypedWireKeys : Occurrences(m, k) > 1

\* the position of the first entry that repeats an earlier typed key
FirstRepeat(m) ==
    CHOOSE j \in 1..Len(m) :
        /\ Key(m[j]) \in TypedWireKeys
        /\ \E i \in 1..(j-1) : Key(m[i]) = Key(m[j])
        /\ \A l \in 1..(j-1) :
              ~(Key(m[l]) \in TypedWireKeys /\ \E i \in 1..(l-1) : Key(m[i]) = Key(m[l]))

Parsed == op \in {"deserialize", "roundtrip"}

----------------------------------------------------------------------------
(* Properties *)

\* C1: a Tag whose extension keys are no typed wire keys, serialized and
\* parsed back, parses successfully to a Tag equal to it in every field, the
\* extensions equal as sequences of entries.
C1_RoundTrip ==
    (op = "roundtrip" /\ NonColliding(tag)) =>
        /\ result.ok
        /\ result.tag = Some(tag)

C1_Witness ==
    /\ op = "roundtrip"
    /\ NonColliding(tag)
    /\ tag.description # None
    /\ tag.external_docs # None
    /\ Len(tag.extensions) >= 2
    /\ result.tag = Some(tag)

\* C2 as stated: an input with a repeated top-level key parses successfully
\* and every key, typed or not, takes the value of its last occurrence.
C2_LastOccurrenceWins ==
    (op = "deserialize" /\ WellTyped(arg) /\ HasKey(arg, NameKey)) =>
        /\ result.ok
        /\ result.tag[1].name = LastVal(arg, NameKey)[2]
        /\ \A k \in Keys(Unmatched(arg)) :
              Get(result.tag[1].extensions, k) = LastVal(arg, k)

\* C2 amended: an input that repeats a typed wire key never parses; when
\* its typed values are well typed the error is duplicate_field naming the
\* first key repeated.  A repeated extension key alone never makes a parse
\* fail, and the extension takes the value of its last occurrence.
C2_DuplicateKeys ==
    op = "deserialize" =>
        /\ TypedKeyRepeated(arg) => (~result.ok /\ result.tag = None)
        /\ (TypedKeyRepeated(arg) /\ WellTyped(arg)) =>
              result.err = <<"duplicate_field", Key(arg[FirstRepeat(arg)])>>
        /\ (~TypedKeyRepeated(arg) /\ WellTyped(arg) /\ HasKey(arg, NameKey)) =>
              result.ok
        /\ result.ok =>
              \A k \in Keys(Unmatched(arg)) :
                  Get(result.tag[1].extensions, k) = LastVal(arg, k)

C2_Witness ==
    /\ op = "deserialize"
    /\ arg = << <<NameKey, Str("pet")>>, <<NameKey, Str("b")>> >>
    /\ result.err = <<"duplicate_field", NameKey>>

\* C3: a successful parse routes every top-level key: a typed wire key sets
\* its field and is no key of extensions; the other keys are the keys of
\* extensions, in the order of their first occurrence, each with the value
\* of its last occurrence; where no such key repeats, extensions is exactly
\* the sequence of the unmatched entries.
C3_Routing ==
    (op = "deserialize" /\ result.ok) =>
        LET t == result.tag[1]
            u == Unmatched(arg)
        IN  /\ t.name = Get(arg, NameKey)[2]
            /\ HasKey(arg, DescriptionKey) =>
                  t.description = IF Get(arg, DescriptionKey) = Null THEN None
                                  ELSE Some(Get(arg, DescriptionKey)[2])
            /\ HasKey(arg, ExternalDocsKey) =>
                  t.external_docs = IF Get(arg, ExternalDocsKey) = Null THEN None
                                    ELSE Some(Get(arg, ExternalDocsKey)[2])
            /\ NonColliding(t)
            /\ DistinctKeys(t.extensions)
            /\ Keys(t.extensions) = Keys(u)
            /\ \A k \in Keys(u) : Get(t.extensions, k) = LastVal(u, k)
            /\ \A i, j \in 1..Len(t.extensions) :
                  i < j => FirstIndexOf(u, Key(t.extensions[i]))
                              < FirstIndexOf(u, Key(t.extensions[j]))
            /\ DistinctKeys(u) => t.extensions = u

C3_Witness ==
    /\ op = "deserialize"
    /\ result.ok
    /\ arg = << <<"x-id", Str("b")>>, <<NameKey, Str("pet")>>,
                <<"external_docs", Obj("e1")>> >>
    /\ tag.extensions = << <<"x-id", Str("b")>>, <<"external_docs", Obj("e1")>> >>

\* C4: an input without the key name never parses and yields no Tag, the
\* error being missing_field name when nothing earlier in the input is in
\* error; an input that parses and lacks description or externalDocs has
\* that field None, and lacking them is no error.
C4_MissingFields ==
    op = "deserialize" =>
        /\ ~HasKey(arg, NameKey) => (~result.ok /\ result.tag = None)
        /\ (~HasKey(arg, NameKey) /\ WellTyped(arg) /\ ~TypedKeyRepeated(arg)) =>
              result.err = <<"missing_field", NameKey>>
        /\ (Occurrences(arg, NameKey) = 1 /\ WellTyped(arg) /\ ~TypedKeyRepeated(arg)) =>
              result.ok
        /\ (result.ok /\ ~HasKey(arg, DescriptionKey)) =>
              result.tag[1].description = None
        /\ (result.ok /\ ~HasKey(arg, ExternalDocsKey)) =>
              result.tag[1].external_docs = None

C4_Witness ==
    /\ op = "deserialize"
    /\ arg = << <<"x-id", Str("pet")>> >>
    /\ ~result.ok
    /\ result.err = <<"missing_field", NameKey>>

\* C5: Tag::extensions(items) merges last-write-wins: every key of items
\* maps to the value of its last occurrence in items; an entry present
\* before keeps its position, and its value unless items names its key; the
\* new keys follow all old ones in the order of their first occurrence in
\* items.  extensions([(a,1)]) then extensions([(a,2),(b,3)]) is [a:2, b:3].
C5_ExtensionsMerge ==
    [][op' = "extensions" =>
        LET old == tag.extensions
            new == tag'.extensions
            items == arg'
        IN  /\ \A k \in Keys(items) : HasKey(new, k) /\ Get(new, k) = LastVal(items, k)
            /\ Len(new) >= Len(old)
            /\ \A i \in 1..Len(old) :
                  /\ Key(new[i]) = Key(old[i])
                  /\ Key(old[i]) \notin Keys(items) => new[i] = old[i]
            /\ Keys(new) = Keys(old) \cup Keys(items)
            /\ DistinctKeys(new)
            /\ \A i, j \in (Len(old)+1)..Len(new) :
                  i < j => FirstIndexOf(items, Key(new[i])) < FirstIndexOf(items, Key(new[j]))
            /\ (old = << <<"a", Num("1")>> >>
                  /\ items = << <<"a", Num("2")>>, <<"b", Num("3")>> >>) =>
                  new = << <<"a", Num("2")>>, <<"b", Num("3")>> >>
    ]_vars

C5_Witness ==
    /\ op = "extensions"
    /\ arg = << <<"a", Num("2")>>, <<"b", Num("3")>> >>
    /\ tag.extensions = << <<"a", Num("2")>>, <<"b", Num("3")>> >>

\* C6: no key of the extensions map of a Tag built by new or Default and
\* the builder methods is a typed wire key.
C6_Disjoint == Building => NonColliding(tag)

\* C7: the entries the typed fields contribute to the serialized form hold
\* the key description exactly when description is present and the key
\* externalDocs exactly when external_docs is present, and none is null.
C7_Omission ==
    op = "serialize" =>
        LET typed == TypedPart(wire, tag)
        IN  /\ HasKey(typed, DescriptionKey) <=> tag.description # None
            /\ HasKey(typed, ExternalDocsKey) <=> tag.external_docs # None
            /\ \A i \in 1..Len(typed) : Val(typed[i]) # Null
            /\ NonColliding(tag) =>
                  /\ HasKey(wire, DescriptionKey) <=> tag.description # None
                  /\ HasKey(wire, ExternalDocsKey) <=> tag.external_docs # None

C7_Witness ==
    /\ op = "serialize"
    /\ tag.description = None
    /\ tag.external_docs # None
    /\ Len(tag.extensions) >= 1
    /\ ~HasKey(wire, DescriptionKey)

\* C8: the serialized keys are name (always, the empty name included), then
\* description if present, then externalDocs if present, then the entries
\* of the extensions map, all of them, in insertion order.
C8_Order ==
    op = "serialize" =>
        /\ wire[1] = <<NameKey, Str(tag.name)>>
        /\ KeySeq(wire) =
              <<NameKey>>
              \o (IF tag.description # None THEN <<DescriptionKey>> ELSE <<>>)
              \o (IF tag.external_docs # None THEN <<ExternalDocsKey>> ELSE <<>>)
              \o KeySeq(tag.extensions)
        /\ ExtensionPart(wire, tag) = tag.extensions

C8_Witness ==
    /\ op = "serialize"
    /\ tag.name = ""
    /\ tag.description # None
    /\ tag.external_docs # None
    /\ Len(tag.extensions) >= 2
    /\ Len(wire) = Len(tag.extensions) + 3

\* C9: external_docs is written under the key externalDocs, never under
\* external_docs, and read from the key externalDocs alone: an input key
\* external_docs leaves the typed field alone.
C9_Renaming ==
    /\ op = "serialize" =>
          LET typed == TypedPart(wire, tag)
          IN  /\ ~HasKey(typed, "external_docs")
              /\ tag.external_docs # None =>
                    /\ HasKey(typed, "externalDocs")
                    /\ Get(typed, "externalDocs") = Obj(tag.external_docs[1])
    /\ (Parsed /\ result.ok) =>
          /\ HasKey(arg, "externalDocs") =>
                result.tag[1].external_docs =
                    IF Get(arg, "externalDocs") = Null THEN None
                    ELSE Some(Get(arg, "externalDocs")[2])
          /\ ~HasKey(arg, "externalDocs") => result.tag[1].external_docs = None

C9_Witness ==
    /\ op = "deserialize"
    /\ result.ok
    /\ HasKey(arg, "external_docs")
    /\ ~HasKey(arg, "externalDocs")
    /\ Get(arg, "external_docs") = Obj("e1")
    /\ tag.external_docs = None

\* C10: Tag::new(n) has name n, no description, no external_docs and no
\* extensions; description(d) sets description to Some(d) and changes
\* nothing else, whatever it was before; external_docs(e) likewise;
\* extensions(items) changes neither name, description nor external_docs.
C10_BuilderFrame ==
    [][/\ op' = "new" =>
            tag' = [name |-> arg'[1], description |-> None,
                    external_docs |-> None, extensions |-> <<>>]
       /\ op' = "description" =>
            /\ tag'.description = Some(arg'[1])
            /\ tag'.name = tag.name
            /\ tag'.external_docs = tag.external_docs
            /\ tag'.extensions = tag.extensions
       /\ op' = "external_docs" =>
            /\ tag'.external_docs = Some(arg'[1])
            /\ tag'.name = tag.name
            /\ tag'.description = tag.description
            /\ tag'.extensions = tag.extensions
       /\ op' = "extensions" =>
            /\ tag'.name = tag.name
            /\ tag'.description = tag.description
            /\ tag'.external_docs = tag.external_docs
    ]_vars

C10_Witness ==
    /\ op = "description"
    /\ arg = <<"d2">>
    /\ tag = [name |-> "", description |-> Some("d2"), external_docs |-> Some("e1"),
              extensions |-> << <<"a", Num("1")>> >>]

====
